---- MODULE Spec2Model ----
(***************************************************************************)
(* Model of the Voltcraft Energy Logger 4000 file decoder (src/main.py).   *)
(*                                                                         *)
(* One Data object (the dataset of one sensor) receives a sequence of      *)
(* accumulate(data) calls.  A file is a sequence of bytes (0..255).        *)
(* Spec and SpecOk take each call as one step; SpecLoop follows one call   *)
(* turn by turn of its while loop; SpecTariff is getPrice1RangeList on a   *)
(* command line, then the price selection of main.                         *)
(*                                                                         *)
(* Conventions:                                                            *)
(*   - Python's None is the empty tuple <<>>;                              *)
(*   - a datetime.datetime is the pair <<day, second>>: day counts the     *)
(*     days since 2000-01-01, second the seconds since midnight; pairs are *)
(*     ordered lexicographically, as datetimes are;                        *)
(*   - a float obtained by dividing a decoded integer by a constant        *)
(*     (/1000., /100., /10.) is kept as the pair <<integer, divisor>>;     *)
(*   - sensor_id, an integer or None, is the 1-tuple <<integer>> when set. *)
(***************************************************************************)
EXTENDS Integers, Sequences, FiniteSets, Bags, TLC

VARIABLES
    power, recorded, on, sensor_id, price1, price2, since,  \* header fields
    daily_total,    \* list of lists (1 to 3 elements each)
    record_list,    \* list of records [date, voltage, current, power_factor]
    data,           \* the bytes given to the last accumulate call
    result,         \* how the last call ended: "none", "ok" or the exception
    sorted_list,    \* record_list when the last call reached line 124
    calls,          \* number of accumulate calls made
    price1_start_list, price2_start_list,   \* args.price1, args.price2
    price1_range_list,  \* what getPrice1RangeList returned
    last_price2_start,  \* its local of that name when the sweep ended
    stderr,         \* the warnings it wrote
    record_date,    \* the record date given to the price selection
    price,          \* what the selection chose: "price1", "price2", or
                    \* the exception it raised; "none" before
    phase,          \* "start", "merged" (line 186 done), "priced"
    pc,             \* where a call followed step by step stands: "idle",
                    \* "loop" (line 105), "sort" (line 121), "backfill"
                    \* (line 124), "done" or "raised"
    read_pos,       \* the position of its BytesIO
    loop_date       \* its local `date`

dataVars == <<power, recorded, on, sensor_id, price1, price2, since,
              daily_total, record_list, data, result, sorted_list, calls>>

tariffVars == <<price1_start_list, price2_start_list, price1_range_list,
                last_price2_start, stderr, record_date, price, phase>>

loopVars == <<pc, read_pos, loop_date>>

vars == <<dataVars, tariffVars, loopVars>>

None == <<>>

Min(a, b) == IF a <= b THEN a ELSE b

(***************************************************************************)
(* Byte-level helpers                                                      *)
(***************************************************************************)

\* BytesIO(...).read(n) at offset pos (0-based): at most n bytes, fewer at
\* the end of the buffer.
Read(buf, pos, n) == SubSeq(buf, pos + 1, Min(pos + n, Len(buf)))

\* A read that leaves the position where it was.
TellStuck(buf, pos, n) == pos

\* The position of the BytesIO after read(n) at offset pos.
Tell(buf, pos, n) == Min(pos + n, Len(buf))

\* BytesIO(...).read() at offset pos: everything that is left.
ReadAll(buf, pos) == SubSeq(buf, pos + 1, Len(buf))

\* Bcd: one decimal digit per byte, no check on the digit or the length.
RECURSIVE BcdFrom(_, _)
BcdFrom(acc, d) ==
    IF d = <<>> THEN acc ELSE BcdFrom(acc * 10 + Head(d), Tail(d))

Bcd(d) == BcdFrom(0, d)

\* int3: struct.unpack('>I', b'\x00' + data); defined for 3 bytes only.
int3(d) == d[1] * 65536 + d[2] * 256 + d[3]

\* dailyDuration: struct.unpack('>H', data); defined for 2 bytes only.
dailyDuration(d) == d[1] * 256 + d[2]

(***************************************************************************)
(* datetime.datetime                                                       *)
(***************************************************************************)

IsLeap(y) == (y % 4 = 0) /\ ((y % 100 # 0) \/ (y % 400 = 0))

DaysInMonth(y, m) ==
    IF m = 2 THEN (IF IsLeap(y) THEN 29 ELSE 28)
    ELSE IF m \in {4, 6, 9, 11} THEN 30 ELSE 31

RECURSIVE DaysBeforeMonth(_, _)
DaysBeforeMonth(y, m) ==
    IF m <= 1 THEN 0 ELSE DaysBeforeMonth(y, m - 1) + DaysInMonth(y, m - 1)

\* Number of leap years in 1..y.
LeapsUpTo(y) == (y \div 4) - (y \div 100) + (y \div 400)

\* Days from 2000-01-01 to the first of January of year y (y >= 2000).
DaysBeforeYear(y) == 365 * (y - 2000) + LeapsUpTo(y - 1) - LeapsUpTo(1999)

\* The datetime constructor raises ValueError outside these ranges.
ValidDate(year, month, day, hour, minute) ==
    /\ month \in 1..12
    /\ day >= 1 /\ day <= DaysInMonth(year, month)
    /\ hour \in 0..23
    /\ minute \in 0..59

Datetime(year, month, day, hour, minute) ==
    << DaysBeforeYear(year) + DaysBeforeMonth(year, month) + (day - 1),
       hour * 3600 + minute * 60 >>

\* TIMEDELTA = datetime.timedelta(0, 60): sixty seconds.
TIMEDELTA == 60

\* date + k * TIMEDELTA (a day has 86400 seconds)
DtAdd(d, k) ==
    LET s == d[2] + k * TIMEDELTA
    IN  << d[1] + (s \div 86400), s % 86400 >>

DtLess(a, b) == (a[1] < b[1]) \/ (a[1] = b[1] /\ a[2] < b[2])

DtLeq(a, b) == (a = b) \/ DtLess(a, b)

\* EARLIEST_TIME = datetime.datetime(2000, 1, 1)
EARLIEST_TIME == Datetime(2000, 1, 1, 0, 0)

(***************************************************************************)
(* The dataset (class Data) as a value                                     *)
(***************************************************************************)

\* The state of a Data object right after __init__.
NewData ==
    [ power |-> None, recorded |-> None, on |-> None, sensor_id |-> None,
      price1 |-> None, price2 |-> None, since |-> None,
      daily_total |-> <<>>, record_list |-> <<>> ]

\* The seven header attributes of a dataset.
HeaderFields(ds) ==
    << ds.power, ds.recorded, ds.on, ds.sensor_id, ds.price1, ds.price2,
       ds.since >>

INFO == <<73, 78, 70, 79, 58>>              \* b'INFO:'

TIME_MARKER == <<224, 197, 234>>            \* b'\xe0\xc5\xea'

TERMINATOR == <<255, 255, 255>>             \* b'\xff\xff\xff'

HEADER_TAIL == <<255, 255, 255, 255>>       \* b'\xff\xff\xff\xff'

\* data[:5] == b'INFO:'
IsHeaderBlock(d) == Read(d, 0, 5) = INFO

(***************************************************************************)
(* accumulate, header branch (lines 82-101).  The fields are assigned one  *)
(* by one while the bytes last: an exception leaves the assignments made   *)
(* before it in place.                                                     *)
(***************************************************************************)

\* Offsets of the fields in data[5:].
OffDailyPower == 9

OffDailyRecorded == 39

OffDailyOn == 59

OffSensor == 79

OffPrice1 == 80

OffPrice2 == 84

OffSince == 88

OffTail == 93

\* assert self.power is None (line 82) fails
HeaderNoCheck(ds) == FALSE

HeaderAlreadySet(ds) == ds.power # None

\* tail == b'\xff\xff\xff\xff' (line 101)
TailStartsWith(tail) == Read(tail, 0, 4) = HEADER_TAIL

TailOk(tail) == tail = HEADER_TAIL

\* How many of the ten reads of `width` bytes starting at `off` succeed.
ReadsDone(len, off, width) ==
    IF len < off THEN 0 ELSE Min(10, (len - off) \div width)

HeaderBranch(ds, d) ==
    LET body == ReadAll(d, 5)
        len  == Len(body)
        nPower    == ReadsDone(len, OffDailyPower, 3)
        nRecorded == ReadsDone(len, OffDailyRecorded, 2)
        nOn       == ReadsDone(len, OffDailyOn, 2)
        dt1 == ds.daily_total \o
                 [j \in 1..nPower |->
                    << <<int3(Read(body, OffDailyPower + 3 * (j - 1), 3)), 1000>> >>]
        dt2 == [i \in DOMAIN dt1 |->
                  IF i <= nRecorded
                  THEN Append(dt1[i],
                         dailyDuration(Read(body, OffDailyRecorded + 2 * (i - 1), 2)))
                  ELSE dt1[i]]
        dt3 == [i \in DOMAIN dt2 |->
                  IF i <= nOn
                  THEN Append(dt2[i],
                         dailyDuration(Read(body, OffDailyOn + 2 * (i - 1), 2)))
                  ELSE dt2[i]]
        sb  == Read(body, OffSince, 5)
        \* struct.unpack('BBBBB', ...) -> hour, minute, month, day, year
        sinceOk == /\ Len(sb) = 5
                   /\ ValidDate(2000 + sb[5], sb[3], sb[4], sb[1], sb[2])
        tail == ReadAll(body, OffTail)
        new == [ ds EXCEPT
                 !.power = IF len >= 3
                           THEN <<int3(Read(body, 0, 3)), 1000>> ELSE @,
                 !.recorded = IF len >= 6
                              THEN <<int3(Read(body, 3, 3)), 100>> ELSE @,
                 !.on = IF len >= 9
                        THEN <<int3(Read(body, 6, 3)), 100>> ELSE @,
                 !.daily_total = dt3,
                 !.sensor_id = IF len > OffSensor THEN <<body[OffSensor + 1]>> ELSE @,
                 !.price1 = IF len > OffSensor
                            THEN <<Bcd(Read(body, OffPrice1, 4)), 1000>> ELSE @,
                 !.price2 = IF len > OffSensor
                            THEN <<Bcd(Read(body, OffPrice2, 4)), 1000>> ELSE @,
                 !.since = IF sinceOk
                           THEN Datetime(2000 + sb[5], sb[3], sb[4], sb[1], sb[2])
                           ELSE @ ]
    IN  IF HeaderAlreadySet(ds)
        THEN [ds |-> ds, result |-> "AssertionError"]      \* line 82
        ELSE IF len < OffSensor
        THEN [ds |-> new, result |-> "struct.error"]       \* int3, dailyDuration
        ELSE IF len = OffSensor
        THEN [ds |-> new, result |-> "IndexError"]         \* read(1)[0]
        ELSE IF Len(sb) < 5
        THEN [ds |-> new, result |-> "struct.error"]       \* line 97
        ELSE IF ~sinceOk
        THEN [ds |-> new, result |-> "ValueError"]         \* line 98
        ELSE IF ~TailOk(tail)
        THEN [ds |-> new, result |-> "AssertionError"]     \* line 101
        ELSE [ds |-> new, result |-> "ok"]

(***************************************************************************)
(* accumulate, record-stream branch (lines 103-123)                        *)
(***************************************************************************)

\* chunk == b'\xe0\xc5\xea' (line 107)
IsTimeMarker(chunk) == chunk = TIME_MARKER

\* chunk == b'\xff\xff\xff' (line 112)
EndOrEmpty(chunk) == chunk = TERMINATOR \/ chunk = <<>>

IsTerminator(chunk) == chunk = TERMINATOR

\* A date that stays where the time marker put it.
KeepDate(date) == date

\* if date is not None: date += TIMEDELTA (lines 118-119)
AdvanceDate(date) == IF date # None THEN DtAdd(date, 1) ELSE date

\* The while loop of lines 105-120, from offset pos with the local `date`
\* and the record list rl; records appended before an exception stay.
RECURSIVE ParseStream(_, _, _, _)
ParseStream(buf, pos, date, rl) ==
    LET chunk == Read(buf, pos, 3)
    IN  IF IsTimeMarker(chunk)
        THEN LET mb == Read(buf, pos + 3, 5)
                 \* struct.unpack -> month, day, year, hour, minute
             IN  IF Len(mb) < 5
                 THEN [record_list |-> rl, result |-> "struct.error"]
                 ELSE IF ~ValidDate(2000 + mb[3], mb[1], mb[2], mb[4], mb[5])
                 THEN [record_list |-> rl, result |-> "ValueError"]
                 ELSE ParseStream(buf, pos + 8,
                        Datetime(2000 + mb[3], mb[1], mb[2], mb[4], mb[5]), rl)
        ELSE IF IsTerminator(chunk)
        THEN [record_list |-> rl, result |-> "ok"]
        ELSE LET rec == chunk \o Read(buf, pos + 3, 2)
             IN  IF Len(rec) # 5
                 THEN [record_list |-> rl, result |-> "struct.error"]
                 ELSE ParseStream(buf, pos + 5,
                        AdvanceDate(date),
                        Append(rl, [ date |-> date,
                                     voltage |-> <<rec[1] * 256 + rec[2], 10>>,
                                     current |-> <<rec[3] * 256 + rec[4], 1000>>,
                                     power_factor |-> <<rec[5], 100>> ]))

\* key=lambda x: x[0] or EARLIEST_TIME (a datetime is always true)
SortKey(r) == IF r.date # None THEN r.date ELSE EARLIEST_TIME

\* list.sort is stable: r goes after every element whose key is <= its own.
InsertStable(s, r) ==
    LET k == Cardinality({i \in 1..Len(s) : DtLeq(SortKey(s[i]), SortKey(r))})
    IN  SubSeq(s, 1, k) \o <<r>> \o SubSeq(s, k + 1, Len(s))

RECURSIVE SortFrom(_, _)
SortFrom(done, rest) ==
    IF rest = <<>> THEN done
    ELSE SortFrom(InsertStable(done, Head(rest)), Tail(rest))

\* self.record_list.sort(key=...), line 123
StableSort(rl) == SortFrom(<<>>, rl)

StreamBranch(ds, d) ==
    LET p == ParseStream(d, 0, None, ds.record_list)
    IN  IF p.result = "ok"
        THEN [ds |-> [ds EXCEPT !.record_list = StableSort(p.record_list)],
              result |-> "ok"]
        ELSE [ds |-> [ds EXCEPT !.record_list = p.record_list],
              result |-> p.result]

(***************************************************************************)
(* accumulate, backfill (lines 124-133)                                    *)
(***************************************************************************)

\* The loop of lines 129-133 without the test of line 130: every entry.
LeadingAll(rl) == Len(rl)

\* Length of the leading run of entries whose date is None.
RECURSIVE LeadingNone(_)
LeadingNone(rl) ==
    IF rl = <<>> \/ Head(rl).date # None THEN 0
    ELSE 1 + LeadingNone(Tail(rl))

\* The loop of lines 129-133 without its break.
BackfillEveryNone(snc, rl) ==
    IF snc # None /\ rl # <<>> /\ rl[1].date = None
    THEN [i \in 1..Len(rl) |->
            IF rl[i].date = None
            THEN [rl[i] EXCEPT !.date =
                    DtAdd(snc, Cardinality({j \in 1..(i - 1) : rl[j].date = None}))]
            ELSE rl[i]]
    ELSE rl

Backfill(snc, rl) ==
    IF snc # None /\ rl # <<>> /\ rl[1].date = None
    THEN LET n == LeadingNone(rl)
         IN  [i \in 1..Len(rl) |->
                IF i <= n THEN [rl[i] EXCEPT !.date = DtAdd(snc, i - 1)]
                ELSE rl[i]]
    ELSE rl

(***************************************************************************)
(* Data.accumulate (lines 80-133): the dataset after the call, how the     *)
(* call ended, and the record list as the backfill step found it.          *)
(***************************************************************************)
Accumulate(ds, d) ==
    LET b == IF IsHeaderBlock(d) THEN HeaderBranch(ds, d)
             ELSE StreamBranch(ds, d)
    IN  IF b.result = "ok"
        THEN [ds |-> [b.ds EXCEPT
                        !.record_list = Backfill(b.ds.since, b.ds.record_list)],
              result |-> "ok",
              sorted_list |-> b.ds.record_list]
        ELSE [ds |-> b.ds, result |-> b.result,
              sorted_list |-> b.ds.record_list]

(***************************************************************************)
(* Tariff windows (lines 135-168) and the price selection of main          *)
(* (lines 217-226).  A datetime.time is the triple <<hour, minute,         *)
(* second>>; triples are ordered lexicographically, as times are.          *)
(***************************************************************************)

\* time < other and time <= other for datetime.time
TimeLess(a, b) ==
    \/ a[1] < b[1]
    \/ a[1] = b[1] /\ a[2] < b[2]
    \/ a[1] = b[1] /\ a[2] = b[2] /\ a[3] < b[3]

TimeLeq(a, b) == a = b \/ TimeLess(a, b)

\* datetime.datetime.time()
TimeOf(d) == << d[2] \div 3600, (d[2] \div 60) % 60, d[2] % 60 >>

\* [(x, True) for x in price1_start_list] + [(x, False) for ...]
TaggedList(price1_starts, price2_starts) ==
    [i \in 1..Len(price1_starts) |-> [time |-> price1_starts[i], start |-> TRUE]]
    \o
    [i \in 1..Len(price2_starts) |-> [time |-> price2_starts[i], start |-> FALSE]]

\* sorted is stable: e goes after every element whose time is <= its own.
InsertByTime(s, e) ==
    LET k == Cardinality({i \in 1..Len(s) : TimeLeq(s[i].time, e.time)})
    IN  SubSeq(s, 1, k) \o <<e>> \o SubSeq(s, k + 1, Len(s))

RECURSIVE SortByTime(_, _)
SortByTime(done, rest) ==
    IF rest = <<>> THEN done
    ELSE SortByTime(InsertByTime(done, Head(rest)), Tail(rest))

\* The two lists put end to end, not sorted.
MergedUnsorted(price1_starts, price2_starts) ==
    TaggedList(price1_starts, price2_starts)

\* merged_list, lines 139-143
MergedList(price1_starts, price2_starts) ==
    SortByTime(<<>>, TaggedList(price1_starts, price2_starts))

\* The locals of getPrice1RangeList before the loop (lines 144-147).
SweepStart ==
    [ result |-> <<>>, running_range |-> None, last_price2_start |-> None,
      stderr |-> <<>> ]

\* A tariff1 marker that moves the start of the open window to itself.
OnPrice1Restart(st, time) == [st EXCEPT !.running_range = time]

\* if start: (lines 149-155)
OnPrice1(st, time) ==
    IF st.running_range = None
    THEN [st EXCEPT !.running_range = time]
    ELSE [st EXCEPT !.stderr = Append(@,
            [option |-> "price1", time |-> time, since |-> st.running_range])]

\* A tariff2 marker that is remembered only when it closes no window.
OnPrice2ForgetClosing(st, time) ==
    IF st.running_range = None
    THEN [st EXCEPT
            !.stderr = IF st.last_price2_start # None
                       THEN Append(@, [option |-> "price2", time |-> time,
                                       since |-> st.last_price2_start])
                       ELSE @,
            !.last_price2_start = time]
    ELSE [st EXCEPT !.result = Append(@, <<st.running_range, time>>),
                    !.running_range = None]

\* else: (lines 156-165)
OnPrice2(st, time) ==
    IF st.running_range = None
    THEN [st EXCEPT
            !.stderr = IF st.last_price2_start # None
                       THEN Append(@, [option |-> "price2", time |-> time,
                                       since |-> st.last_price2_start])
                       ELSE @,
            !.last_price2_start = time]
    ELSE [st EXCEPT !.result = Append(@, <<st.running_range, time>>),
                    !.running_range = None,
                    !.last_price2_start = time]

\* for time, start in merged_list: (lines 148-165)
RECURSIVE Sweep(_, _)
Sweep(st, merged) ==
    IF merged = <<>> THEN st
    ELSE Sweep(IF Head(merged).start THEN OnPrice1(st, Head(merged).time)
               ELSE OnPrice2(st, Head(merged).time),
               Tail(merged))

\* The end of the function without lines 166-167.
FinishDropOpen(st) == st

\* if running_range is not None: append((running_range, None))
Finish(st) ==
    IF st.running_range # None
    THEN [st EXCEPT !.result = Append(@, <<st.running_range, None>>)]
    ELSE st

\* getPrice1RangeList: its locals when it returns; .result is returned.
getPrice1RangeList(price1_starts, price2_starts) ==
    Finish(Sweep(SweepStart, MergedList(price1_starts, price2_starts)))

\* any((min_time <= date.time() < max_time) for ... in price1_range_list),
\* then lines 223-225.  The generator is evaluated window by window:
\* date.time() on None raises AttributeError, and a time compared with a
\* None max_time raises TypeError once min_time <= date.time() held.
RECURSIVE SelectPrice(_, _)
SelectPrice(d, ranges) ==
    IF ranges = <<>> THEN "price2"
    ELSE IF d = None THEN "AttributeError"
    ELSE LET min_time == Head(ranges)[1]
             max_time == Head(ranges)[2]
         IN  IF ~TimeLeq(min_time, TimeOf(d)) THEN SelectPrice(d, Tail(ranges))
             ELSE IF max_time = None THEN "TypeError"
             ELSE IF TimeLess(TimeOf(d), max_time) THEN "price1"
             ELSE SelectPrice(d, Tail(ranges))

(***************************************************************************)
(* Files given to accumulate.  A file is built from its parts as the       *)
(* format lays them out (header: INFO: + fields + trailer; record stream:  *)
(* records and time markers + terminator), then possibly cut short or      *)
(* followed by other bytes.                                                *)
(***************************************************************************)

MaxCalls == 3       \* accumulate calls on the dataset

MaxRun == 1         \* measurement records in a row in one file

MaxRecords == 3     \* entries of record_list

\* power, recorded, on: 1.234 kWh, 1.50 h, 1.20 h
HeaderTotals == <<0, 4, 210, 0, 0, 150, 0, 0, 120>>

\* ten 3-byte integers 1..10, then twice ten 2-byte integers
HeaderDaily ==
    [i \in 1..30 |-> IF i % 3 = 0 THEN i \div 3 ELSE 0] \o
    [i \in 1..20 |-> IF i % 2 = 0 THEN 100 + i \div 2 ELSE 0] \o
    [i \in 1..20 |-> IF i % 2 = 0 THEN 200 + i \div 2 ELSE 1]

HeaderPrices == <<0, 1, 5, 0, 0, 0, 9, 5>>

SensorBytes == {3, 10}

\* hour, minute, month, day, year: 2021-06-15 10:30, and the 30th of February
SinceGood == <<10, 30, 6, 15, 21>>

SinceBad == <<10, 30, 2, 30, 21>>

\* Trailers: the right one, a short one, a long one, a wrong one.
TailBytes == { HEADER_TAIL, <<255, 255, 255>>, <<255, 255, 255, 255, 0>>,
               <<255, 255, 255, 254>> }

HeaderFile(sid, snc, tail) ==
    INFO \o HeaderTotals \o HeaderDaily \o <<sid>> \o HeaderPrices \o snc \o tail

\* Lengths at which a header file is cut: inside and between the fields.
HeaderCuts == {7, 8, 20, 47, 84, 85, 96}

HeaderFiles ==
    { HeaderFile(sid, SinceGood, HEADER_TAIL) : sid \in SensorBytes } \cup
    { HeaderFile(3, SinceBad, HEADER_TAIL) } \cup
    { HeaderFile(3, SinceGood, tail) : tail \in TailBytes } \cup
    { Read(HeaderFile(3, SinceGood, HEADER_TAIL), 0, n) : n \in HeaderCuts }

\* month, day, year, hour, minute: 2000-01-01 00:00, 2021-06-15 10:31, and
\* a 13th month
MarkerDates == { <<1, 1, 0, 0, 0>>, <<6, 15, 21, 10, 31>> }

MarkerBad == <<13, 1, 21, 0, 0>>

\* The k-th measurement record of a file: 230.k V, 0.500 A, cos phi 0.90
RecordBytes(k) == <<8, 252 + k, 1, 244, 90>>

RECURSIVE Run(_, _)
Run(from, n) ==
    IF n = 0 THEN <<>> ELSE RecordBytes(from) \o Run(from + 1, n - 1)

\* What follows the leading records: nothing, or a time marker and the
\* records after it.
MarkedParts ==
    { <<>> } \cup
    { TIME_MARKER \o m \o Run(MaxRun, k) : m \in MarkerDates, k \in 0..MaxRun }

\* Other ends of a stream file: the terminator and more bytes, nothing, a
\* cut record, a cut time marker, a time marker with a 13th month, a cut
\* record after a time marker and a record.
OtherEnds ==
    { TERMINATOR \o <<1, 2>>, <<>>, <<8, 252, 1, 244>>,
      TIME_MARKER \o <<6, 15>>,
      TIME_MARKER \o MarkerBad \o TERMINATOR,
      TIME_MARKER \o <<6, 15, 21, 10, 31>> \o RecordBytes(MaxRun) \o <<8, 252>> }

\* A stream with two time markers, the later one earlier in time, more than
\* MaxRun records after the first, and a whole record after the terminator.
TwoMarkers ==
    TIME_MARKER \o <<6, 15, 21, 10, 31>> \o Run(0, MaxRun + 1) \o
    TIME_MARKER \o <<1, 1, 0, 0, 0>> \o RecordBytes(MaxRun + 1) \o
    TERMINATOR \o RecordBytes(MaxRun + 2)

StreamFiles ==
    { Run(0, n) \o p \o TERMINATOR : n \in 0..MaxRun, p \in MarkedParts } \cup
    { Run(0, n) \o e : n \in 0..MaxRun, e \in OtherEnds } \cup
    { TwoMarkers }

\* Command lines: up to MaxStarts --price1 and --price2 options each, any
\* order, repeats allowed (argparse appends them as given).
MaxStarts == 2

TimeChoices == { <<8, 0, 0>>, <<9, 0, 0>>, <<20, 0, 0>> }

StartLists == UNION { [1..n -> TimeChoices] : n \in 0..MaxStarts }

\* Record dates met by the price selection: unresolved, the earliest time,
\* the minute after logging began, and one on a tariff time.
RecordDates ==
    { None, EARLIEST_TIME, Datetime(2021, 6, 15, 10, 31),
      Datetime(2021, 6, 15, 20, 0) }

(***************************************************************************)
(* The state machine: one dataset, a sequence of accumulate calls          *)
(***************************************************************************)

\* The Data object as a value.
Dataset ==
    [ power |-> power, recorded |-> recorded, on |-> on,
      sensor_id |-> sensor_id, price1 |-> price1, price2 |-> price2,
      since |-> since, daily_total |-> daily_total,
      record_list |-> record_list ]

DataInit ==
    /\ power = None /\ recorded = None /\ on = None /\ sensor_id = None
    /\ price1 = None /\ price2 = None /\ since = None
    /\ daily_total = <<>>
    /\ record_list = <<>>
    /\ data = <<>>
    /\ result = "none"
    /\ sorted_list = <<>>
    /\ calls = 0

TariffInit ==
    /\ price1_start_list = <<>> /\ price2_start_list = <<>>
    /\ price1_range_list = <<>>
    /\ last_price2_start = None
    /\ stderr = <<>>
    /\ record_date = None
    /\ price = "none"
    /\ phase = "start"

LoopInit == pc = "idle" /\ read_pos = 0 /\ loop_date = None

Init == DataInit /\ TariffInit /\ LoopInit

\* sensor_dict[sensor_id].accumulate(d)
Call(d) ==
    /\ calls < MaxCalls
    /\ \E r \in {Accumulate(Dataset, d)} :
        /\ Len(r.ds.record_list) <= MaxRecords
        /\ power' = r.ds.power
        /\ recorded' = r.ds.recorded
        /\ on' = r.ds.on
        /\ sensor_id' = r.ds.sensor_id
        /\ price1' = r.ds.price1
        /\ price2' = r.ds.price2
        /\ since' = r.ds.since
        /\ daily_total' = r.ds.daily_total
        /\ record_list' = r.ds.record_list
        /\ data' = d
        /\ result' = r.result
        /\ sorted_list' = r.sorted_list
        /\ calls' = calls + 1
    /\ UNCHANGED <<tariffVars, loopVars>>

AccumulateHeader == \E d \in HeaderFiles : Call(d)

AccumulateStream == \E d \in StreamFiles : Call(d)

Next == AccumulateHeader \/ AccumulateStream

Spec == Init /\ [][Next]_vars

\* The same dataset when every call made so far has returned without an
\* exception (main stops at the first exception).
NextOk ==
    \/ AccumulateHeader /\ result' = "ok"
    \/ AccumulateStream /\ result' = "ok"

SpecOk == Init /\ [][NextOk]_vars

(***************************************************************************)
(* One accumulate call on a new dataset followed step by step: each turn   *)
(* of the while loop of lines 105-120 is a step, then the sort (line 121), *)
(* then the backfill (lines 124-133).  The header branch has no loop and   *)
(* is one step.                                                            *)
(***************************************************************************)

\* Lines 81-104: the header branch as a whole, or the reader of a stream.
Enter ==
    /\ pc = "idle"
    /\ \E d \in HeaderFiles \cup StreamFiles :
        /\ data' = d
        /\ IF IsHeaderBlock(d)
           THEN \E b \in {HeaderBranch(Dataset, d)} :
                /\ power' = b.ds.power
                /\ recorded' = b.ds.recorded
                /\ on' = b.ds.on
                /\ sensor_id' = b.ds.sensor_id
                /\ price1' = b.ds.price1
                /\ price2' = b.ds.price2
                /\ since' = b.ds.since
                /\ daily_total' = b.ds.daily_total
                /\ result' = IF b.result = "ok" THEN result ELSE b.result
                /\ pc' = IF b.result = "ok" THEN "backfill" ELSE "raised"
           ELSE /\ pc' = "loop"
                /\ UNCHANGED <<power, recorded, on, sensor_id, price1, price2,
                               since, daily_total, result>>
    /\ read_pos' = 0
    /\ loop_date' = None
    /\ calls' = calls + 1
    /\ UNCHANGED <<record_list, sorted_list, tariffVars>>

\* One turn of the while loop (lines 105-120).
LoopStep ==
    /\ pc = "loop"
    /\ LET chunk == Read(data, read_pos, 3)
           after == Tell(data, read_pos, 3)
       IN  IF IsTimeMarker(chunk)
           THEN LET mb == Read(data, after, 5)
                IN  /\ read_pos' = Tell(data, after, 5)
                    /\ record_list' = record_list
                    /\ IF Len(mb) < 5
                       THEN /\ pc' = "raised" /\ result' = "struct.error"
                            /\ loop_date' = loop_date
                       ELSE IF ~ValidDate(2000 + mb[3], mb[1], mb[2], mb[4], mb[5])
                       THEN /\ pc' = "raised" /\ result' = "ValueError"
                            /\ loop_date' = loop_date
                       ELSE /\ pc' = "loop" /\ result' = result
                            /\ loop_date' =
                                 Datetime(2000 + mb[3], mb[1], mb[2], mb[4], mb[5])
           ELSE IF IsTerminator(chunk)
           THEN /\ read_pos' = after
                /\ pc' = "sort"
                /\ UNCHANGED <<record_list, loop_date, result>>
           ELSE LET rec == chunk \o Read(data, after, 2)
                IN  /\ read_pos' = Tell(data, after, 2)
                    /\ IF Len(rec) # 5
                       THEN /\ pc' = "raised" /\ result' = "struct.error"
                            /\ UNCHANGED <<record_list, loop_date>>
                       ELSE /\ pc' = "loop" /\ result' = result
                            /\ loop_date' = AdvanceDate(loop_date)
                            /\ record_list' = Append(record_list,
                                 [ date |-> loop_date,
                                   voltage |-> <<rec[1] * 256 + rec[2], 10>>,
                                   current |-> <<rec[3] * 256 + rec[4], 1000>>,
                                   power_factor |-> <<rec[5], 100>> ])
    /\ UNCHANGED <<power, recorded, on, sensor_id, price1, price2, since,
                   daily_total, data, sorted_list, calls, tariffVars>>

\* self.record_list.sort(...), lines 121-123
Sort ==
    /\ pc = "sort"
    /\ record_list' = StableSort(record_list)
    /\ pc' = "backfill"
    /\ UNCHANGED <<power, recorded, on, sensor_id, price1, price2, since,
                   daily_total, data, result, sorted_list, calls, read_pos,
                   loop_date, tariffVars>>

\* Lines 124-133, then the return.
BackfillStep ==
    /\ pc = "backfill"
    /\ sorted_list' = record_list
    /\ record_list' = Backfill(since, record_list)
    /\ result' = "ok"
    /\ pc' = "done"
    /\ UNCHANGED <<power, recorded, on, sensor_id, price1, price2, since,
                   daily_total, data, calls, read_pos, loop_date, tariffVars>>

LoopNext == Enter \/ LoopStep \/ Sort \/ BackfillStep

\* The interpreter runs the call on: no step waits for anything.
SpecLoop == Init /\ [][LoopNext]_vars /\ WF_vars(LoopNext)

(***************************************************************************)
(* The state machine of the tariff windows: main computes the windows from *)
(* the command line (line 186), then selects a price for each record       *)
(* (lines 220-226) until a selection raises.                               *)
(***************************************************************************)

\* price1_range_list = getPrice1RangeList(args.price1, args.price2)
MergeTariffs ==
    /\ phase = "start"
    /\ \E p1 \in StartLists, p2 \in StartLists :
         \E r \in {getPrice1RangeList(p1, p2)} :
            /\ price1_start_list' = p1
            /\ price2_start_list' = p2
            /\ price1_range_list' = r.result
            /\ last_price2_start' = r.last_price2_start
            /\ stderr' = r.stderr
    /\ phase' = "merged"
    /\ UNCHANGED <<record_date, price>>
    /\ UNCHANGED <<dataVars, loopVars>>

\* One turn of the loop of lines 220-226.
ChoosePrice ==
    /\ phase \in {"merged", "priced"}
    /\ price \in {"none", "price1", "price2"}
    /\ \E d \in RecordDates :
        /\ record_date' = d
        /\ price' = SelectPrice(d, price1_range_list)
    /\ phase' = "priced"
    /\ UNCHANGED <<price1_start_list, price2_start_list, price1_range_list,
                   last_price2_start, stderr>>
    /\ UNCHANGED <<dataVars, loopVars>>

TariffNext == MergeTariffs \/ ChoosePrice

SpecTariff == Init /\ [][TariffNext]_vars

(***************************************************************************)
(* Properties                                                              *)
(***************************************************************************)

\* The header part of the dataset: the seven fields and daily_total.
HeaderPart == << power, recorded, on, sensor_id, price1, price2, since,
                 daily_total >>

\* The last step was an accumulate call on a header block / a record stream.
HeaderCall == calls > 0 /\ IsHeaderBlock(data)

StreamCall == calls > 0 /\ ~IsHeaderBlock(data)

\* record_list is in ascending order of timestamp, None counting as the
\* minimum value.
Ascending(rl) ==
    \A i \in 1..(Len(rl) - 1) : DtLeq(SortKey(rl[i]), SortKey(rl[i + 1]))

\* The entries of a list as a bag.
BagOfSeq(sq) ==
    [x \in {sq[i] : i \in DOMAIN sq} |->
        Cardinality({i \in DOMAIN sq : sq[i] = x})]

\* C1: a call that fails leaves the whole dataset (header fields,
\* daily_total, record_list) as it was before the call.
C1_FailedCallChangesNothing ==
    [][result' # "ok" => Dataset' = Dataset]_vars

\* C2: after every call that returns without error, record_list is in
\* ascending timestamp order, None counting as the minimum value.
C2_AscendingAfterSuccess ==
    result = "ok" => Ascending(record_list)

\* C3: after successful calls only, once `since` is set no entry of
\* record_list has a None timestamp.
C3_AllResolvedOnceSinceSet ==
    (result = "ok" /\ since # None) =>
        \A i \in DOMAIN record_list : record_list[i].date # None

\* C4: from the current dataset, any two files that decode in both orders
\* give the same bag of records in both orders.
C4_OrderIndependent ==
    \A ra \in {[f |-> a, r |-> Accumulate(Dataset, a)] :
                  a \in HeaderFiles \cup StreamFiles} :
      ra.r.result = "ok" =>
        \A rb \in {[f |-> b, r |-> Accumulate(Dataset, b)] :
                      b \in HeaderFiles \cup StreamFiles} :
          rb.r.result = "ok" =>
            \A pair \in {<<Accumulate(ra.r.ds, rb.f), Accumulate(rb.r.ds, ra.f)>>} :
              (pair[1].result = "ok" /\ pair[2].result = "ok") =>
                BagOfSeq(pair[1].ds.record_list) = BagOfSeq(pair[2].ds.record_list)

\* C5: a header block given to a dataset whose header is already set fails
\* and changes nothing; the header part is written only when it was still
\* unset, and daily_total never has more than 10 entries.
C5_SingleHeader ==
    [][ /\ (IsHeaderBlock(data') /\ calls' # calls /\ power # None) =>
              (result' # "ok" /\ Dataset' = Dataset)
        /\ (HeaderPart' # HeaderPart) =>
              (HeaderPart = <<None, None, None, None, None, None, None, <<>> >>)
        /\ Len(daily_total') <= 10 ]_vars

\* C5 witness: a well-formed header block was refused because the header
\* was already set from an earlier block.
C5_Witness ==
    /\ calls > 1
    /\ data = HeaderFile(3, SinceGood, HEADER_TAIL)
    /\ result = "AssertionError"
    /\ since # None
    /\ Len(daily_total) = 10

\* C6: a header block is accepted only with a sensor id in 0..9.
C6_SensorIdInRange ==
    (HeaderCall /\ result = "ok") => sensor_id[1] \in 0..9

\* C7: a header block is accepted only if what follows the `since` field is
\* exactly FF FF FF FF.
C7_TrailerExact ==
    (HeaderCall /\ result = "ok") => ReadAll(data, 5 + OffTail) = HEADER_TAIL

\* C7 witness: a first header block, complete up to `since`, was refused for
\* the bytes after `since` (here the right trailer followed by one byte).
C7_Witness ==
    /\ calls = 1
    /\ IsHeaderBlock(data)
    /\ ReadAll(data, 5 + OffTail) = <<255, 255, 255, 255, 0>>
    /\ result = "AssertionError"

\* C8: the backfill step gives since, since+60s, ... to the entries of the
\* leading run of None timestamps, in order, and changes nothing else; it
\* changes nothing at all when `since` is None.
C8_BackfillLeadingRunOnly ==
    result = "ok" =>
        /\ Len(record_list) = Len(sorted_list)
        /\ \A i \in DOMAIN sorted_list :
              IF since # None /\ i <= LeadingNone(sorted_list)
              THEN record_list[i] =
                     [sorted_list[i] EXCEPT !.date = DtAdd(since, i - 1)]
              ELSE record_list[i] = sorted_list[i]

\* C8 witness: backfill met a leading run of None timestamps followed by a
\* resolved entry.
C8_Witness ==
    /\ result = "ok"
    /\ since # None
    /\ LeadingNone(sorted_list) >= 1
    /\ Len(sorted_list) > LeadingNone(sorted_list)

\* The measurement records of a stream file that precede its first time
\* marker, with the timestamps since, since+60s, ...
AnchoredLead(d, snc) ==
    LET pl == ParseStream(d, 0, None, <<>>).record_list
    IN  [i \in 1..LeadingNone(pl) |-> [pl[i] EXCEPT !.date = DtAdd(snc, i - 1)]]

\* C9: after a record stream without a leading time marker is accumulated
\* into a dataset with `since` set, its records before the first marker are
\* in record_list with the timestamps since + 60*k seconds.
C9_LeadAnchoredOnSince ==
    (StreamCall /\ result = "ok" /\ since # None /\ ~IsTimeMarker(Read(data, 0, 3)))
        => BagOfSeq(AnchoredLead(data, since)) \sqsubseteq BagOfSeq(record_list)

\* How a stream file is framed, dates not looked at: "complete" when the
\* 3-byte reads reach the terminator, "truncated" when the bytes run out
\* first.
RECURSIVE Framing(_, _)
Framing(buf, pos) ==
    LET chunk == Read(buf, pos, 3)
    IN  IF Len(chunk) < 3 THEN "truncated"
        ELSE IF chunk = TERMINATOR THEN "complete"
        ELSE IF chunk = TIME_MARKER
        THEN (IF Len(buf) < pos + 8 THEN "truncated" ELSE Framing(buf, pos + 8))
        ELSE (IF Len(buf) < pos + 5 THEN "truncated" ELSE Framing(buf, pos + 5))

\* The same, stopping with "baddate" at the first complete time marker whose
\* five bytes are no calendar date and time.
RECURSIVE FramingDated(_, _)
FramingDated(buf, pos) ==
    LET chunk == Read(buf, pos, 3)
        mb == Read(buf, pos + 3, 5)
    IN  IF Len(chunk) < 3 THEN "truncated"
        ELSE IF chunk = TERMINATOR THEN "complete"
        ELSE IF chunk = TIME_MARKER
        THEN (IF Len(mb) < 5 THEN "truncated"
              ELSE IF ~ (/\ mb[1] \in 1..12
                         /\ mb[2] \in 1..DaysInMonth(2000 + mb[3], mb[1])
                         /\ mb[4] \in 0..23
                         /\ mb[5] \in 0..59)
              THEN "baddate"
              ELSE FramingDated(buf, pos + 8))
        ELSE (IF Len(buf) < pos + 5 THEN "truncated"
              ELSE FramingDated(buf, pos + 5))

\* C10 as stated: a record-stream call fails exactly when the bytes run out
\* before the terminator is read.
C10_FailsIffTruncated ==
    StreamCall => ((result # "ok") <=> (Framing(data, 0) = "truncated"))

\* C10 amended: a record-stream call fails exactly when the bytes run out
\* before the terminator is read (struct.error) or a complete time marker
\* read before that is no valid date (ValueError).
C10_FailsIffTruncatedOrBadDate ==
    StreamCall =>
        /\ (result = "ok") <=> (FramingDated(data, 0) = "complete")
        /\ (result = "struct.error") <=> (FramingDated(data, 0) = "truncated")
        /\ (result = "ValueError") <=> (FramingDated(data, 0) = "baddate")

\* C10 witness: a stream of complete items and the terminator that failed.
C10_Witness ==
    /\ StreamCall
    /\ Framing(data, 0) = "complete"
    /\ result = "ValueError"

(***************************************************************************)
(* Properties of the tariff windows                                        *)
(***************************************************************************)

\* C11: the windows getPrice1RangeList returns are ordered and do not
\* overlap, whatever the two lists hold (equal times in both, repeats):
\* a closed window has start <= end, a window starts at or after the end
\* of the one before it, and only the last window may have end = None.
C11_WindowsOrdered ==
    phase # "start" =>
        LET w == price1_range_list
        IN  \A i \in 1..Len(w) :
                /\ w[i][2] # None => TimeLeq(w[i][1], w[i][2])
                /\ i > 1 => /\ w[i - 1][2] # None
                            /\ TimeLeq(w[i - 1][2], w[i][1])

\* Two windows were returned, the first one empty because the same time was
\* given to both options, and one list repeats a time or is out of order.
C11_Witness ==
    /\ phase = "merged"
    /\ Len(price1_range_list) = 2
    /\ price1_range_list[1][1] = price1_range_list[1][2]
    /\ \E i \in 1..Len(price1_start_list) :
            price1_start_list[i] \in {price2_start_list[j] :
                                        j \in 1..Len(price2_start_list)}
    /\ Len(price1_start_list) = 2
    /\ TimeLess(price1_start_list[2], price1_start_list[1])

\* The markers in the order the sweep meets them.
Merged == MergedList(price1_start_list, price2_start_list)

\* A window is open when marker i is met: some tariff1 marker before it has
\* no tariff2 marker between itself and i.
OpenBefore(m, i) ==
    \E j \in 1..(i - 1) : m[j].start /\ \A k \in (j + 1)..(i - 1) : m[k].start

\* Marker i is a tariff2 marker that closes a window.
IsClose(m, i) == ~m[i].start /\ OpenBefore(m, i)

\* The last close before marker i (0: none), and the earliest tariff1
\* marker after that close and before i.
PrevClose(m, i) ==
    LET c == {0} \cup {j \in 1..(i - 1) : IsClose(m, j)}
    IN  CHOOSE j \in c : \A k \in c : k <= j

EarliestPrice1(m, i) ==
    LET c == {j \in (PrevClose(m, i) + 1)..(i - 1) : m[j].start}
    IN  CHOOSE j \in c : \A k \in c : j <= k

\* C12: a tariff1 marker met while a window is open writes exactly one
\* warning, does not stop the function and leaves the start of the open
\* window alone: each closed window is (earliest tariff1 marker since the
\* previous close, first tariff2 marker at or after it).  --price1 08:00
\* --price1 09:00 --price2 20:00 gives the single window (08:00, 20:00) and
\* one warning.
C12_ConsecutivePrice1 ==
    phase # "start" =>
        LET m == Merged
            idx == [i \in 1..Len(m) |-> i]
            closes == SelectSeq(idx, LAMBDA i : IsClose(m, i))
            repeats == SelectSeq(idx, LAMBDA i : m[i].start /\ OpenBefore(m, i))
            closed == SelectSeq(price1_range_list, LAMBDA w : w[2] # None)
            warned == SelectSeq(stderr, LAMBDA x : x.option = "price1")
        IN  /\ closed = [n \in 1..Len(closes) |->
                            << m[EarliestPrice1(m, closes[n])].time,
                               m[closes[n]].time >>]
            /\ \A n \in 1..Len(closes) :
                    \A k \in EarliestPrice1(m, closes[n])..(closes[n] - 1) :
                        m[k].start
            /\ warned = [n \in 1..Len(repeats) |->
                            [ option |-> "price1",
                              time |-> m[repeats[n]].time,
                              since |-> m[EarliestPrice1(m, repeats[n])].time ]]
            /\ ( /\ price1_start_list = << <<8, 0, 0>>, <<9, 0, 0>> >>
                 /\ price2_start_list = << <<20, 0, 0>> >> )
               => /\ price1_range_list = << << <<8, 0, 0>>, <<20, 0, 0>> >> >>
                  /\ Len(stderr) = 1

\* The command line of the example was merged: 09:00 met the window opened
\* at 08:00, which 20:00 then closed.
C12_Witness ==
    /\ phase = "merged"
    /\ price1_start_list = << <<8, 0, 0>>, <<9, 0, 0>> >>
    /\ price2_start_list = << <<20, 0, 0>> >>
    /\ Len(price1_range_list) = 1
    /\ stderr = << [ option |-> "price1", time |-> <<9, 0, 0>>,
                     since |-> <<8, 0, 0>> ] >>

\* C13: getPrice1RangeList returns a window (start, None) if and only if
\* the last marker in merged order is a tariff1 marker; that window is the
\* last element of the result and there is at most one; two empty lists
\* give an empty result and no warning.
C13_OpenWindowIffLastIsPrice1 ==
    phase # "start" =>
        LET m == Merged
            w == price1_range_list
            open == {i \in 1..Len(w) : w[i][2] = None}
        IN  /\ open # {} <=> (m # <<>> /\ m[Len(m)].start)
            /\ open \subseteq {Len(w)}
            /\ (price1_start_list = <<>> /\ price2_start_list = <<>>)
               => (w = <<>> /\ stderr = <<>>)

\* A closed window is followed by an open one: the last marker is tariff1.
C13_Witness ==
    /\ phase = "merged"
    /\ Len(price1_range_list) = 2
    /\ price1_range_list[1][2] # None
    /\ price1_range_list[2][2] = None
    /\ Merged[Len(Merged)].start

\* C16: a tariff2 marker writes a warning exactly when no window is open
\* and the marker just before it in merged order is a tariff2 marker too
\* (the warning names that marker); a tariff2 marker that is the first
\* marker or that closes a window writes none; last_price2_start is set on
\* every tariff2 marker, so it ends as the last tariff2 marker met.
C16_ConsecutivePrice2 ==
    phase # "start" =>
        LET m == Merged
            idx == [i \in 1..Len(m) |-> i]
            repeats == SelectSeq(idx, LAMBDA i :
                            /\ ~m[i].start /\ ~OpenBefore(m, i)
                            /\ i > 1 /\ ~m[i - 1].start)
            warned == SelectSeq(stderr, LAMBDA x : x.option = "price2")
            price2s == {i \in 1..Len(m) : ~m[i].start}
        IN  /\ warned = [n \in 1..Len(repeats) |->
                            [ option |-> "price2",
                              time |-> m[repeats[n]].time,
                              since |-> m[repeats[n] - 1].time ]]
            /\ last_price2_start =
                  IF price2s = {} THEN None
                  ELSE m[CHOOSE i \in price2s : \A k \in price2s : k <= i].time

\* A tariff2 marker closed a window and the next tariff2 marker, at a later
\* time, was warned about.
C16_Witness ==
    /\ phase = "merged"
    /\ Len(price1_range_list) = 1
    /\ Len(stderr) = 1
    /\ stderr[1].option = "price2"
    /\ stderr[1].since = price1_range_list[1][2]
    /\ TimeLess(stderr[1].since, stderr[1].time)

\* C17: when the window list ends with (start, None), the price selection
\* of main ends without an exception for every record, selects price1 for
\* every record whose time of day is at or after start, and selects price2
\* only for a record that no window covers.
C17_OpenWindowPricedToMidnight ==
    LET w == price1_range_list
        t == TimeOf(record_date)
    IN  ( /\ phase = "priced" /\ record_date # None
          /\ w # <<>> /\ w[Len(w)][2] = None )
        => /\ price \in {"price1", "price2"}
           /\ TimeLeq(w[Len(w)][1], t) => price = "price1"
           /\ price = "price2" =>
                \A i \in 1..Len(w) :
                    ~ ( /\ TimeLeq(w[i][1], t)
                        /\ w[i][2] # None => TimeLess(t, w[i][2]) )

(***************************************************************************)
(* Properties of the record stream and of the two branches                 *)
(***************************************************************************)

\* The measurement records of a well-framed stream from offset pos, each
\* with the time T of the last time marker before it plus 60 seconds for
\* each of the k records met since that marker (unresolved when no marker
\* came before); nothing after the first terminator.
RECURSIVE Stamped(_, _, _, _)
Stamped(buf, pos, T, k) ==
    LET chunk == SubSeq(buf, pos + 1, pos + 3)
    IN  IF chunk = TERMINATOR THEN <<>>
        ELSE IF chunk = TIME_MARKER
        THEN Stamped(buf, pos + 8,
                     Datetime(2000 + buf[pos + 6], buf[pos + 4], buf[pos + 5],
                              buf[pos + 7], buf[pos + 8]), 0)
        ELSE << [ date |-> IF T = None THEN None
                           ELSE << T[1] + ((T[2] + 60 * k) \div 86400),
                                   (T[2] + 60 * k) % 86400 >>,
                  voltage |-> <<buf[pos + 1] * 256 + buf[pos + 2], 10>>,
                  current |-> <<buf[pos + 3] * 256 + buf[pos + 4], 1000>>,
                  power_factor |-> <<buf[pos + 5], 100>> ] >>
             \o Stamped(buf, pos + 5, T, k + 1)

\* C14: in one stream block the k-th measurement record after a time marker
\* with time T is appended with T + 60*k seconds (k = 0 for the first), a
\* later marker replaces the current timestamp, the records before the
\* first marker are appended unresolved, and nothing after the first
\* terminator is read: when the call reaches the backfill step the record
\* list holds the entries it had plus exactly these.
C14_ImplicitTimestamps ==
    [][ (calls' = calls + 1 /\ ~IsHeaderBlock(data') /\ result' = "ok")
        => BagOfSeq(sorted_list') =
              BagOfSeq(record_list) (+) BagOfSeq(Stamped(data', 0, None, 0)) ]_vars

\* A stream was decoded in which a record is the second one after a time
\* marker, a later marker set an earlier time for the record after it, and
\* a record follows the terminator.
C14_Witness ==
    /\ StreamCall /\ result = "ok"
    /\ data = TwoMarkers
    /\ Len(record_list) = MaxRun + 2
    /\ record_list[1].date = EARLIEST_TIME
    /\ record_list[1].voltage = <<2048 + 252 + MaxRun + 1, 10>>
    /\ record_list[2].date = Datetime(2021, 6, 15, 10, 31)
    /\ record_list[3].date = Datetime(2021, 6, 15, 10, 32)

\* C15: when a record-stream call has sorted the list (line 123, before
\* the backfill) every unresolved entry stands before every resolved one,
\* whatever the resolved timestamps are (2000-01-01 00:00 included), and
\* the unresolved entries are in the order they were appended in.
C15_UnresolvedFirstAfterSort ==
    [][ (calls' = calls + 1 /\ ~IsHeaderBlock(data') /\ result' = "ok")
        => /\ \A i, j \in 1..Len(sorted_list') :
                (i < j /\ sorted_list'[j].date = None)
                => sorted_list'[i].date = None
           /\ SelectSeq(sorted_list', LAMBDA r : r.date = None) =
              SelectSeq(record_list \o Stamped(data', 0, None, 0),
                        LAMBDA r : r.date = None) ]_vars

\* The call followed step by step has ended, and how its loop ended.
Ended == pc \in {"done", "raised"}

LoopBroke == pc \in {"sort", "backfill", "done"} /\ ~IsHeaderBlock(data)

LoopRaised == pc = "raised" /\ ~IsHeaderBlock(data)

\* Every call ends; a turn of the loop that is followed by another one has
\* moved the read position by at least 3 bytes; the loop is left at the
\* terminator, just read.
EndsAndConsumes ==
    /\ <>Ended
    /\ [][(pc = "loop" /\ pc' = "loop") => read_pos' >= read_pos + 3]_vars
    /\ [](LoopBroke => /\ read_pos >= 3
                        /\ Read(data, read_pos - 3, 3) = TERMINATOR)

\* C18 as stated: accumulate ends on every input; the loop of a record
\* stream consumes at least 3 bytes per turn and ends either by reading the
\* terminator or by failing when the bytes run out.
C18_EndsByTerminatorOrTruncation ==
    /\ EndsAndConsumes
    /\ [](LoopRaised => Framing(data, 0) = "truncated")

\* C18, amended: accumulate ends on every input; the loop of a record
\* stream consumes at least 3 bytes per turn that is followed by another
\* one, and ends by reading the terminator, by failing when the bytes run
\* out, or by failing on a complete time marker that holds no valid date.
C18_Terminates ==
    /\ EndsAndConsumes
    /\ [](LoopRaised => FramingDated(data, 0) \in {"truncated", "baddate"})

\* A stream without terminator was read to its last byte, turn after turn,
\* and the call raised when nothing was left to read.
C18_Witness ==
    /\ LoopRaised
    /\ result = "struct.error"
    /\ Len(record_list) = MaxRun
    /\ read_pos = Len(data)
    /\ read_pos >= 5

\* C19: a call on a record stream changes none of the seven header fields
\* and not daily_total; a call on a header block adds no entry to
\* record_list, removes and moves none, and changes no voltage, current or
\* power factor: all it may do to an entry is give an unresolved one its
\* timestamp.  Both hold for calls that raise as well.
C19_BranchFrames ==
    [][ calls' = calls + 1 =>
        /\ ~IsHeaderBlock(data') => HeaderPart' = HeaderPart
        /\ IsHeaderBlock(data') =>
            /\ Len(record_list') = Len(record_list)
            /\ \A i \in 1..Len(record_list) :
                \/ record_list'[i] = record_list[i]
                \/ /\ record_list[i].date = None
                   /\ record_list'[i].date # None
                   /\ record_list'[i] =
                        [record_list[i] EXCEPT !.date = record_list'[i].date]
      ]_vars

\* A header call met a list of two entries or more, the first unresolved
\* and the last resolved: it stamped the first and left the last alone.
C19_Witness ==
    /\ HeaderCall /\ result = "ok"
    /\ Len(record_list) >= 2
    /\ sorted_list[1].date = None
    /\ record_list[1].date = since
    /\ sorted_list[Len(sorted_list)].date # None
    /\ record_list[Len(record_list)] = sorted_list[Len(sorted_list)]

====
